---- MODULE Spec2Model ----
(***************************************************************************)
(* A model of misanthropique/Logger (src/Logger.hpp): one Logger instance, *)
(* the host program's threads calling its emission methods and setLevel,   *)
(* the C streams it writes to, and the static getLevelFromString parser.   *)
(***************************************************************************)
EXTENDS Naturals, Sequences, FiniteSets, Bags, TLC

\* ------------------------------------------------------------------ bounds

\* Host threads that share the Logger instance.
NThreads == 2
\* Emission calls the host program makes in all (shared by the threads).
MaxCalls == 2
\* Emission calls the sequential host makes.
MaxSeqCalls == 1
\* setLevel calls the host program makes in all.
MaxSetLevel == 1
\* The clock runs from second 0 to second MaxTime.
MaxTime == 1
\* Longest string over ParseAlphabet given to getLevelFromString.
MaxParseLen == 4

Threads == 1..NThreads

\* ------------------------------------------------------------ enumerations

\* enum class Level, in declaration order.
Level == <<"ALL", "DEBUG", "INFO", "WARNING", "ERROR", "CRITICAL", "NONE">>

Levels == {Level[i] : i \in 1..Len(Level)}

\* enum class TimePrefix.
TimePrefix == {"NONE", "ISO_8601", "LOCAL_DEFAULT", "USER_DEFINED"}

DEFAULT_LOGGING_LEVEL == "WARNING"

\* The levels the public emission methods pass to _writeMessage.
EmitLevels == {"CRITICAL", "DEBUG", "ERROR", "INFO", "WARNING"}

\* ------------------------------------------------------ getLevelFromString

\* A std::string given to getLevelFromString is a sequence of characters.
STRING_TO_LEVEL_MAP ==
    (<<"A","L","L">> :> "ALL")
 @@ (<<"D","E","B","U","G">> :> "DEBUG")
 @@ (<<"I","N","F","O">> :> "INFO")
 @@ (<<"W","A","R","N","I","N","G">> :> "WARNING")
 @@ (<<"W","A","R","N">> :> "WARNING")
 @@ (<<"E","R","R","O","R">> :> "ERROR")
 @@ (<<"E","R","R">> :> "ERROR")
 @@ (<<"C","R","I","T","I","C","A","L">> :> "CRITICAL")
 @@ (<<"C","R","I","T">> :> "CRITICAL")
 @@ (<<"N","O","N","E">> :> "NONE")

LowerCase == <<"a","b","c","d","e","f","g","h","i","j","k","l","m",
               "n","o","p","q","r","s","t","u","v","w","x","y","z">>

UpperCase == <<"A","B","C","D","E","F","G","H","I","J","K","L","M",
               "N","O","P","Q","R","S","T","U","V","W","X","Y","Z">>

\* A faulty variant of toupper: the character is returned as it is.
toupper_identity(character) == character

\* std::toupper in the "C" locale: a lower-case letter becomes its capital,
\* every other character is returned as it is.
toupper(character) ==
    IF \E i \in 1..Len(LowerCase) : LowerCase[i] = character
    THEN UpperCase[CHOOSE i \in 1..Len(LowerCase) : LowerCase[i] = character]
    ELSE character

\* std::transform( ..., toupper ) over the copy of the argument.
normalizedString(level) == [i \in 1..Len(level) |-> toupper(level[i])]

getLevelFromString(level, defaultLevel) ==
    LET normalized == normalizedString(level)
    IN  IF normalized \in DOMAIN STRING_TO_LEVEL_MAP
        THEN STRING_TO_LEVEL_MAP[normalized]
        ELSE defaultLevel

\* ---------------------------------------------------------- the level gate

LOGGER_LEVEL_ORDER == <<"ALL", "DEBUG", "INFO", "WARNING", "ERROR", "CRITICAL">>

LOGGER_LEVEL_ORDER_ARRAY_SIZE == Len(LOGGER_LEVEL_ORDER)

\* std::distance( LOGGER_LEVEL_ORDER, std::find( first, last, value ) ):
\* the 0-based index of value, or the array size when it is not found.
FindDistance(value) ==
    IF \E i \in 1..LOGGER_LEVEL_ORDER_ARRAY_SIZE : LOGGER_LEVEL_ORDER[i] = value
    THEN (CHOOSE i \in 1..LOGGER_LEVEL_ORDER_ARRAY_SIZE :
              LOGGER_LEVEL_ORDER[i] = value) - 1
    ELSE LOGGER_LEVEL_ORDER_ARRAY_SIZE

\* A faulty variant of DistanceCompare: the comparison is strict.
DistanceCompare_strict(loggerLevel, logMessageLevel) ==
    FindDistance(loggerLevel) < FindDistance(logMessageLevel)

\* The comparison on line 130, on the value of mLoggingLevel read on line 128.
DistanceCompare(loggerLevel, logMessageLevel) ==
    FindDistance(loggerLevel) <= FindDistance(logMessageLevel)

\* ---------------------------------------------------------------- the clock

\* std::time: the instant of second `now` of the run.
TimeOf(now) == [year |-> 2021, mon |-> 11, mday |-> 18, hour |-> 6, min |-> 18, sec |-> 20 + now]

\* The host's time zone is one hour east of UTC.
TzOffsetHours == 1

gmtime(t) == t

localtime(t) == [t EXCEPT !.hour = t.hour + TzOffsetHours]

Pad2(n) == IF n < 10 THEN "0" \o ToString(n) ELSE ToString(n)

\* std::put_time on the patterns a Logger is constructed with.
put_time(tm, pattern) ==
    CASE pattern = "%Y-%m-%dT%H:%M:%SZ" ->
            ToString(tm.year) \o "-" \o Pad2(tm.mon) \o "-" \o Pad2(tm.mday) \o "T"
                \o Pad2(tm.hour) \o ":" \o Pad2(tm.min) \o ":" \o Pad2(tm.sec) \o "Z"
      [] pattern = "%Y-%m-%d %H:%M:%S" ->
            ToString(tm.year) \o "-" \o Pad2(tm.mon) \o "-" \o Pad2(tm.mday) \o " "
                \o Pad2(tm.hour) \o ":" \o Pad2(tm.min) \o ":" \o Pad2(tm.sec)
      [] pattern = "%H:%M:%S" ->
            Pad2(tm.hour) \o ":" \o Pad2(tm.min) \o ":" \o Pad2(tm.sec)
      [] OTHER -> ""

\* _getTimestamp: the string left in `timestamp`.
getTimestamp(now, timePrefix, userDefinedTimeFormatting) ==
    LET currentTime == TimeOf(now)
    IN  CASE timePrefix = "NONE" -> ""
          [] timePrefix = "ISO_8601" ->
                put_time(gmtime(currentTime), "%Y-%m-%dT%H:%M:%SZ")
          [] timePrefix = "LOCAL_DEFAULT" ->
                put_time(localtime(currentTime), "%Y-%m-%d %H:%M:%S")
          [] timePrefix = "USER_DEFINED" ->
                IF userDefinedTimeFormatting # ""
                THEN put_time(localtime(currentTime), userDefinedTimeFormatting)
                ELSE ""

\* ------------------------------------------------------- message formatting

MESSAGE_LEVEL_TO_STRING ==
    [l \in EmitLevels |->
        CASE l = "DEBUG"    -> "DEBUG    "
          [] l = "INFO"     -> "INFO     "
          [] l = "WARNING"  -> "WARNING  "
          [] l = "ERROR"    -> "ERROR    "
          [] l = "CRITICAL" -> "CRITICAL "]

\* A call's format template and arguments: the template is its literal
\* pieces and conversion specifiers in order.
Formats ==
    { [format |-> <<"boom ", "%s">>, arguments |-> <<"now">>],
      [format |-> <<"hi">>,          arguments |-> <<>>] }

RECURSIVE vsnprintf(_, _)
\* vsnprintf into a buffer of exactly the measured size: every specifier is
\* replaced by its argument, in order.
vsnprintf(format, arguments) ==
    IF format = <<>> THEN ""
    ELSE IF Head(format) \in {"%s", "%d"}
         THEN (IF Head(format) = "%d" THEN ToString(Head(arguments)) ELSE Head(arguments))
                  \o vsnprintf(Tail(format), Tail(arguments))
         ELSE Head(format) \o vsnprintf(Tail(format), arguments)

\* A faulty variant of FprintfFields: the separators are always written.
FprintfFields_spaced(timestamp, loggerName, levelString, message) ==
    << timestamp, " ", loggerName, " ", levelString, message, "\n" >>

\* The arguments of the fprintf on lines 201-204, in order, and the "\n" of
\* its format string.
FprintfFields(timestamp, loggerName, levelString, message) ==
    << timestamp, IF 0 = Len(timestamp) THEN "" ELSE " ",
       loggerName, IF 0 = Len(loggerName) THEN "" ELSE " ",
       levelString, message, "\n" >>

\* ------------------------------------------------------------- C streams

\* The bytes of a stream: its complete lines and the line not yet ended.
EmptyBytes == [lines |-> <<>>, partial |-> ""]

\* Bytes b followed by one piece of output: "\n" or text without a newline.
PutPiece(b, piece) ==
    IF piece = "\n"
    THEN [lines |-> Append(b.lines, b.partial), partial |-> ""]
    ELSE [b EXCEPT !.partial = b.partial \o piece]

\* Bytes a followed by bytes b.
PutBytes(a, b) ==
    IF b.lines = <<>>
    THEN [a EXCEPT !.partial = a.partial \o b.partial]
    ELSE [lines |-> a.lines \o <<a.partial \o Head(b.lines)>> \o Tail(b.lines),
          partial |-> b.partial]

\* FILE* values: stderr, the stream fopen returned, and nullptr.
Handles == {"stderr", "file"}

\* The paths of the model's file system and the ones fopen( path, "w" ) opens.
WritablePath == "/tmp/my_application/class_my_logger.log"

UnwritablePath == "/nonexistent/class_my_logger.log"

fopen(path) == IF path = WritablePath THEN "file" ELSE "nullptr"

\* ------------------------------------------------------------------ state

VARIABLES
    mLoggerName,                 \* std::string mLoggerName
    mLoggingLevel,               \* Logger::Level mLoggingLevel
    mLoggingFile,                \* FILE* mLoggingFile
    mTimePrefix,                 \* Logger::TimePrefix mTimePrefix
    mUserDefinedTimeFormatting,  \* std::string mUserDefinedTimeFormatting
    mWriteMutex,                 \* std::mutex mWriteMutex: its owner, 0 when free
    alive,                       \* the instance is constructed and not destroyed
    filename,                    \* the constructor's filename argument
    streams,                     \* per FILE handle: open, buffer, written bytes, fclose calls
    now,                         \* the clock, in seconds
    pc,                          \* per thread: where its emission call stands
    logMessageLevel,             \* per thread: _writeMessage's logMessageLevel
    call,                        \* per thread: the format and arguments of its call
    timestamp,                   \* per thread: the local timestamp
    messageBuffer,               \* per thread: the local messageBuffer
    wpos,                        \* per thread: the next fprintf field to write
    calls,                       \* emission calls made so far
    setLevels,                   \* setLevel calls made so far
    configured,                  \* the minimum level last asked for (constructor, setLevel)
    held,                        \* per thread: the minimum levels set during its call
    prepared,                    \* the lines of the calls that passed the gate (a bag)
    parseLevel,                  \* getLevelFromString's argument level
    parseDefault,                \* getLevelFromString's argument defaultLevel
    parseResult                  \* what the last getLevelFromString call returned

loggerVars == << mLoggerName, mLoggingLevel, mLoggingFile, mTimePrefix,
                 mUserDefinedTimeFormatting >>

localVars == << logMessageLevel, call, timestamp, messageBuffer, wpos >>

parseVars == << parseLevel, parseDefault, parseResult >>

vars == << mLoggerName, mLoggingLevel, mLoggingFile, mTimePrefix,
           mUserDefinedTimeFormatting, mWriteMutex, alive, filename, streams, now,
           pc, logMessageLevel, call, timestamp, messageBuffer, wpos, calls,
           setLevels, configured, held, prepared, parseLevel, parseDefault,
           parseResult >>

NoCall == [format |-> <<>>, arguments |-> <<>>]

\* ------------------------------------------------------------ construction

\* A faulty variant of OpenLoggingFile: what fopen returns is kept, nullptr too.
OpenLoggingFile_noFallback(name) ==
    IF name # "" THEN fopen(name) ELSE "stderr"

\* The stream the constructor leaves in mLoggingFile: stderr, unless a
\* filename is given and fopen opens it.
OpenLoggingFile(name) ==
    IF name # "" /\ fopen(name) # "nullptr" THEN fopen(name) ELSE "stderr"

\* Logger::Logger( name, filename, loggingLevel, timePrefix, userDefinedTimeFormatting )
Logger(name, file, loggingLevel, timePrefix, userDefinedTimeFormatting) ==
    /\ mLoggerName = name
    /\ mLoggingFile = OpenLoggingFile(file)
    /\ mLoggingLevel = loggingLevel
    /\ configured = loggingLevel
    /\ mTimePrefix = timePrefix
    /\ mUserDefinedTimeFormatting = userDefinedTimeFormatting
    /\ mWriteMutex = 0
    /\ alive = TRUE
    /\ filename = file
    /\ streams = [h \in Handles |->
                    [open |-> (h = "stderr") \/ (file # "" /\ fopen(file) = h),
                     buffer |-> EmptyBytes, written |-> EmptyBytes, closes |-> 0]]

\* The host program before its first call.
HostInit ==
    /\ now = 0
    /\ pc = [t \in Threads |-> "idle"]
    /\ logMessageLevel = [t \in Threads |-> "NONE"]
    /\ call = [t \in Threads |-> NoCall]
    /\ timestamp = [t \in Threads |-> ""]
    /\ messageBuffer = [t \in Threads |-> ""]
    /\ wpos = [t \in Threads |-> 0]
    /\ calls = 0
    /\ setLevels = 0
    /\ held = [t \in Threads |-> {}]
    /\ prepared = EmptyBag

\* The arguments of the host's getLevelFromString call, which is still to be made.
ParseInit(level, defaultLevel) ==
    /\ parseLevel = level
    /\ parseDefault = defaultLevel
    /\ parseResult = "pending"

Names == {"", "svc"}

Filenames == {"", WritablePath, UnwritablePath}

UserFormats == {"", "%H:%M:%S"}

Init ==
    /\ \E name \in Names, file \in Filenames, loggingLevel \in Levels,
          timePrefix \in TimePrefix, userFormat \in UserFormats :
          /\ (timePrefix # "USER_DEFINED" => userFormat = "")
          /\ Logger(name, file, loggingLevel, timePrefix, userFormat)
    /\ HostInit
    /\ ParseInit(<<>>, DEFAULT_LOGGING_LEVEL)

\* ------------------------------------------------------- emission methods

\* The public emission methods and the level each passes to _writeMessage.
EmissionMethods ==
    [critical |-> "CRITICAL", debug |-> "DEBUG", error |-> "ERROR",
     info |-> "INFO", warning |-> "WARNING"]

\* What _writeMessage's locals hold outside a call.
Return(t) ==
    /\ pc' = [pc EXCEPT ![t] = "idle"]
    /\ logMessageLevel' = [logMessageLevel EXCEPT ![t] = "NONE"]
    /\ call' = [call EXCEPT ![t] = NoCall]
    /\ timestamp' = [timestamp EXCEPT ![t] = ""]
    /\ messageBuffer' = [messageBuffer EXCEPT ![t] = ""]
    /\ wpos' = [wpos EXCEPT ![t] = 0]
    /\ held' = [held EXCEPT ![t] = {}]

\* A faulty variant of Emit: the timestamp is rendered before the gate is asked.
Emit_eagerTimestamp(t, method, c) ==
    /\ alive
    /\ pc[t] = "idle"
    /\ calls < MaxCalls
    /\ calls' = calls + 1
    /\ pc' = [pc EXCEPT ![t] = "gate1"]
    /\ logMessageLevel' = [logMessageLevel EXCEPT ![t] = EmissionMethods[method]]
    /\ call' = [call EXCEPT ![t] = c]
    /\ timestamp' = [timestamp EXCEPT
                        ![t] = getTimestamp(now, mTimePrefix, mUserDefinedTimeFormatting)]
    /\ held' = [held EXCEPT ![t] = {configured}]
    /\ UNCHANGED << loggerVars, mWriteMutex, alive, filename, streams, now,
                    messageBuffer, wpos, setLevels, configured, prepared, parseVars >>

\* critical / debug / error / info / warning ( format, ... ): thread t enters
\* _writeMessage with the method's level.
Emit(t, method, c) ==
    /\ alive
    /\ pc[t] = "idle"
    /\ calls < MaxCalls
    /\ calls' = calls + 1
    /\ pc' = [pc EXCEPT ![t] = "gate1"]
    /\ logMessageLevel' = [logMessageLevel EXCEPT ![t] = EmissionMethods[method]]
    /\ call' = [call EXCEPT ![t] = c]
    /\ held' = [held EXCEPT ![t] = {configured}]
    /\ UNCHANGED << loggerVars, mWriteMutex, alive, filename, streams, now,
                    timestamp, messageBuffer, wpos, setLevels, configured, prepared, parseVars >>

\* A read of mLoggingLevel by thread t. setLevel writes the field without
\* synchronization, so a read that races with it yields the value the field
\* holds or one it held since the call began.
LoggingLevelRead(t) == {mLoggingLevel} \cup held[t]

\* _canWriteLogMessage, line 122: the first read of mLoggingLevel.
CheckNone(t) ==
    /\ pc[t] = "gate1"
    /\ \E loggingLevel \in LoggingLevelRead(t) :
          IF "NONE" = loggingLevel
          THEN Return(t)
          ELSE /\ pc' = [pc EXCEPT ![t] = "gate2"]
               /\ UNCHANGED << localVars, held >>
    /\ UNCHANGED << loggerVars, mWriteMutex, alive, filename, streams, now, calls,
                    setLevels, configured, prepared, parseVars >>

\* _canWriteLogMessage, lines 127-130: the second read of mLoggingLevel and
\* the comparison; _writeMessage returns when it is false.
CompareLevels(t) ==
    /\ pc[t] = "gate2"
    /\ \E loggingLevel \in LoggingLevelRead(t) :
          IF DistanceCompare(loggingLevel, logMessageLevel[t])
          THEN /\ pc' = [pc EXCEPT ![t] = "prepare"]
               /\ UNCHANGED << localVars, held >>
          ELSE Return(t)
    /\ UNCHANGED << loggerVars, mWriteMutex, alive, filename, streams, now, calls,
                    setLevels, configured, prepared, parseVars >>

\* _writeMessage, lines 187-197: the timestamp is rendered and the message
\* formatted into a buffer of the measured size.
Prepare(t) ==
    /\ pc[t] = "prepare"
    /\ timestamp' = [timestamp EXCEPT
                        ![t] = getTimestamp(now, mTimePrefix, mUserDefinedTimeFormatting)]
    /\ messageBuffer' = [messageBuffer EXCEPT
                            ![t] = vsnprintf(call[t].format, call[t].arguments)]
    /\ prepared' = prepared (+) SetToBag({[timestamp |-> timestamp'[t], name |-> mLoggerName,
                                           level |-> logMessageLevel[t],
                                           message |-> messageBuffer'[t]]})
    /\ pc' = [pc EXCEPT ![t] = "lock"]
    /\ UNCHANGED << loggerVars, mWriteMutex, alive, filename, streams, now,
                    logMessageLevel, call, wpos, calls, setLevels, configured, held, parseVars >>

\* A faulty variant of Lock: the write is entered without the mutex.
Lock_noMutex(t) ==
    /\ pc[t] = "lock"
    /\ pc' = [pc EXCEPT ![t] = "write"]
    /\ wpos' = [wpos EXCEPT ![t] = 1]
    /\ UNCHANGED << loggerVars, mWriteMutex, alive, filename, streams, now,
                    logMessageLevel, call, timestamp, messageBuffer, calls, setLevels,
                    configured, held, prepared, parseVars >>

\* std::lock_guard writeLock( mWriteMutex ), line 199.
Lock(t) ==
    /\ pc[t] = "lock"
    /\ mWriteMutex = 0
    /\ mWriteMutex' = t
    /\ pc' = [pc EXCEPT ![t] = "write"]
    /\ wpos' = [wpos EXCEPT ![t] = 1]
    /\ UNCHANGED << loggerVars, alive, filename, streams, now, logMessageLevel, call,
                    timestamp, messageBuffer, calls, setLevels, configured, held,
                    prepared, parseVars >>

\* fprintf, lines 201-204: the next field goes to the stream's buffer.
Fprintf(t) ==
    /\ pc[t] = "write"
    /\ LET fields == FprintfFields(timestamp[t], mLoggerName,
                                   MESSAGE_LEVEL_TO_STRING[logMessageLevel[t]],
                                   messageBuffer[t])
       IN  /\ streams' = [streams EXCEPT
                ![mLoggingFile].buffer = PutPiece(@, fields[wpos[t]])]
           /\ IF wpos[t] = Len(fields)
              THEN /\ pc' = [pc EXCEPT ![t] = "flush"]
                   /\ wpos' = [wpos EXCEPT ![t] = 0]
              ELSE /\ wpos' = [wpos EXCEPT ![t] = wpos[t] + 1]
                   /\ pc' = pc
    /\ UNCHANGED << loggerVars, mWriteMutex, alive, filename, now, logMessageLevel,
                    call, timestamp, messageBuffer, calls, setLevels, configured, held,
                    prepared, parseVars >>

\* A faulty variant of Fflush: the buffer is left as it is.
Fflush_skipped(t) ==
    /\ pc[t] = "flush"
    /\ pc' = [pc EXCEPT ![t] = "unlock"]
    /\ UNCHANGED << loggerVars, mWriteMutex, alive, filename, streams, now, localVars,
                    calls, setLevels, configured, held, prepared, parseVars >>

\* fflush( mLoggingFile ), line 205.
Fflush(t) ==
    /\ pc[t] = "flush"
    /\ streams' = [streams EXCEPT
          ![mLoggingFile] = [@ EXCEPT !.written = PutBytes(@, streams[mLoggingFile].buffer),
                                      !.buffer = EmptyBytes]]
    /\ pc' = [pc EXCEPT ![t] = "unlock"]
    /\ UNCHANGED << loggerVars, mWriteMutex, alive, filename, now, localVars, calls,
                    setLevels, configured, held, prepared, parseVars >>

\* The end of _writeMessage's block: writeLock is destroyed and the call returns.
Unlock(t) ==
    /\ pc[t] = "unlock"
    /\ mWriteMutex' = IF mWriteMutex = t THEN 0 ELSE mWriteMutex
    /\ Return(t)
    /\ UNCHANGED << loggerVars, alive, filename, streams, now, calls, setLevels,
                    configured, prepared, parseVars >>

\* ------------------------------------------------- setLevel, clock, ~Logger

\* A faulty variant of setLevel: the level is not stored.
setLevel_ignored(level) ==
    /\ alive
    /\ setLevels < MaxSetLevel
    /\ setLevels' = setLevels + 1
    /\ configured' = level
    /\ held' = [t \in Threads |-> IF pc[t] = "idle" THEN held[t] ELSE held[t] \cup {level}]
    /\ UNCHANGED << loggerVars, mWriteMutex, alive, filename, streams, now, pc,
                    localVars, calls, prepared, parseVars >>

\* void setLevel( Logger::Level level )
setLevel(level) ==
    /\ alive
    /\ setLevels < MaxSetLevel
    /\ setLevels' = setLevels + 1
    /\ mLoggingLevel' = level
    /\ configured' = level
    /\ held' = [t \in Threads |-> IF pc[t] = "idle" THEN held[t] ELSE held[t] \cup {level}]
    /\ UNCHANGED << mLoggerName, mLoggingFile, mTimePrefix, mUserDefinedTimeFormatting,
                    mWriteMutex, alive, filename, streams, now, pc, localVars, calls,
                    prepared, parseVars >>

\* A second of the clock passes.
Tick ==
    /\ now < MaxTime
    /\ now' = now + 1
    /\ UNCHANGED << loggerVars, mWriteMutex, alive, filename, streams, pc, localVars,
                    calls, setLevels, configured, held, prepared, parseVars >>

\* A faulty variant of OwnsFile: stderr is not told apart.
OwnsFile_anyStream(file) == "nullptr" # file

\* The condition of the destructor's if, lines 260-261.
OwnsFile(file) == ("stderr" # file) /\ ("nullptr" # file)

\* fclose: what is buffered is written and the stream is closed.
fclose(stream) ==
    [open |-> FALSE, buffer |-> EmptyBytes,
     written |-> PutBytes(stream.written, stream.buffer), closes |-> stream.closes + 1]

\* Logger::~Logger, run when the owning scope ends: no call is in progress.
Destroy ==
    /\ alive
    /\ \A t \in Threads : pc[t] = "idle"
    /\ IF OwnsFile(mLoggingFile)
       THEN /\ streams' = [streams EXCEPT ![mLoggingFile] = fclose(@)]
            /\ mLoggingFile' = "nullptr"
       ELSE UNCHANGED << streams, mLoggingFile >>
    /\ mLoggingLevel' = "NONE"
    /\ mTimePrefix' = "NONE"
    /\ mUserDefinedTimeFormatting' = ""
    /\ mLoggerName' = ""
    /\ alive' = FALSE
    /\ UNCHANGED << mWriteMutex, filename, now, pc, localVars, calls, setLevels, configured,
                    held, prepared, parseVars >>

\* The message of thread t's calls in the concurrent host: its own number.
ThreadFormats(t) == { [format |-> <<"x=", "%d">>, arguments |-> <<t>>] }

\* The concurrent host: NThreads threads emit through one instance constructed
\* with a name, the ISO-8601 prefix and the level INFO.
ConcInit ==
    /\ \E file \in {"", WritablePath} : Logger("svc", file, "INFO", "ISO_8601", "")
    /\ HostInit
    /\ ParseInit(<<>>, DEFAULT_LOGGING_LEVEL)

Next ==
    \/ \E t \in Threads, method \in DOMAIN EmissionMethods :
          \E c \in ThreadFormats(t) : Emit(t, method, c)
    \/ \E t \in Threads : CheckNone(t)
    \/ \E t \in Threads : CompareLevels(t)
    \/ \E t \in Threads : Prepare(t)
    \/ \E t \in Threads : Lock(t)
    \/ \E t \in Threads : Fprintf(t)
    \/ \E t \in Threads : Fflush(t)
    \/ \E t \in Threads : Unlock(t)
    \/ Destroy

Spec == ConcInit /\ [][Next]_vars

\* The steps of thread t's emission call once it is made.
Step(t) ==
    \/ CheckNone(t)
    \/ CompareLevels(t)
    \/ Prepare(t)
    \/ Fprintf(t)
    \/ Fflush(t)
    \/ Unlock(t)

\* Fair scheduling: a thread that can take a step of its call takes one, and
\* a thread that can lock the mutex again and again gets it.
FairSpec ==
    /\ ConcInit
    /\ [][Next]_vars
    /\ \A t \in Threads : WF_vars(Step(t)) /\ SF_vars(Lock(t))

\* The host whose level is set while one thread emits.
GateInit ==
    /\ \E loggingLevel \in Levels : Logger("svc", "", loggingLevel, "ISO_8601", "")
    /\ HostInit
    /\ ParseInit(<<>>, DEFAULT_LOGGING_LEVEL)

GateNext ==
    \/ \E method \in DOMAIN EmissionMethods, c \in ThreadFormats(1) : Emit(1, method, c)
    \/ CheckNone(1)
    \/ CompareLevels(1)
    \/ Prepare(1)
    \/ Lock(1)
    \/ Fprintf(1)
    \/ Fflush(1)
    \/ Unlock(1)
    \/ \E level \in Levels : setLevel(level)
    \/ Destroy

GateSpec == GateInit /\ [][GateNext]_vars

\* Strings given to getLevelFromString: every spelling of the recognised
\* names in three casings, near misses, and every string over ParseAlphabet
\* of at most MaxParseLen characters.
SpelledInputs ==
    {
      <<>>, <<"a","l","l">>, <<"A","L","L">>, <<"A","l","l">>, <<"d","e","b","u","g">>,
      <<"D","E","B","U","G">>, <<"D","e","B","u","G">>, <<"i","n","f","o">>,
      <<"I","N","F","O">>, <<"I","n","f","o">>, <<"w","a","r","n","i","n","g">>,
      <<"W","A","R","N","I","N","G">>, <<"W","a","r","n","i","n","g">>,
      <<"w","a","r","n">>, <<"W","A","R","N">>, <<"w","A","r","N">>, <<"e","r","r","o","r">>,
      <<"E","R","R","O","R">>, <<"E","r","r","o","r">>, <<"e","r","r">>,
      <<"E","R","R">>, <<"c","r","i","t","i","c","a","l">>, <<"C","R","I","T","I","C","A","L">>,
      <<"C","r","i","t","i","c","a","l">>, <<"c","r","i","t">>, <<"C","R","I","T">>,
      <<"C","r","i","T">>, <<"n","o","n","e">>, <<"N","O","N","E">>, <<"N","o","n","e">>,
      <<"W","A","R","N","I","N","G","S">>, <<"W","A","R">>, <<"I","N","F","0">>,
      <<" ","i","n","f","o">>, <<"i","n","f","o"," ">>, <<"v","e","r","b","o","s","e">>,
      <<"C","R","I","T","I","C","A","L","!">>, <<"E">> }

ParseAlphabet == {"e", "E", "r", "R", "o", "n"}

ParseInputs ==
    SpelledInputs \cup UNION { [1..k -> ParseAlphabet] : k \in 0..MaxParseLen }

\* The call of the static getLevelFromString( level, defaultLevel ).
GetLevelFromString ==
    /\ parseResult = "pending"
    /\ parseResult' = getLevelFromString(parseLevel, parseDefault)
    /\ UNCHANGED << loggerVars, mWriteMutex, alive, filename, streams, now, pc,
                    localVars, calls, setLevels, configured, held, prepared,
                    parseLevel, parseDefault >>

\* The host that parses a level name, beside an instance whose level is set.
ParseHostInit ==
    /\ Logger("svc", "", DEFAULT_LOGGING_LEVEL, "NONE", "")
    /\ HostInit
    /\ \E level \in ParseInputs, defaultLevel \in Levels : ParseInit(level, defaultLevel)

ParseNext ==
    \/ GetLevelFromString
    \/ \E level \in Levels : setLevel(level)

ParseSpec == ParseHostInit /\ [][ParseNext]_vars

\* The sequential host: one thread, every construction, and the clock.
SeqNext ==
    \/ \E method \in DOMAIN EmissionMethods, c \in Formats :
          calls < MaxSeqCalls /\ Emit(1, method, c)
    \/ CheckNone(1)
    \/ CompareLevels(1)
    \/ Prepare(1)
    \/ Lock(1)
    \/ Fprintf(1)
    \/ Fflush(1)
    \/ Unlock(1)
    \/ Tick
    \/ Destroy

SeqSpec == Init /\ [][SeqNext]_vars

\* ------------------------------------------------- the public interface

\* The public methods Logger.hpp defines.
PublicMethods ==
    DOMAIN EmissionMethods \cup {"getLevelFromString", "Logger", "~Logger", "setLevel"}

\* The public methods API_Logger.uml declares.
ApiMethods ==
    {"getLevelFromString", "Logger", "~Logger", "critical", "debug", "error", "info",
     "log", "setLevel", "warning"}

\* ================================================================ claims

\* The rank of a level on the severity scale.
Rank == [ALL |-> 0, DEBUG |-> 1, INFO |-> 2, WARNING |-> 3, ERROR |-> 4, CRITICAL |-> 5]

\* The gate rule: emit iff the minimum M is not NONE and rank(M) <= rank(L).
GateRule(M, L) == M # "NONE" /\ Rank[M] <= Rank[L]

\* Thread t's call has passed the gate.
PastGate(t) == pc[t] \in {"prepare", "lock", "write", "flush", "unlock"}

\* Thread t's call is at the gate.
AtGate(t) == pc[t] \in {"gate1", "gate2"}

\* This step is the return of thread t's call from the gate: it is suppressed.
Suppressed(t) == AtGate(t) /\ pc'[t] = "idle"

Quiescent == \A t \in Threads : pc[t] = "idle"

\* The complete lines written to the stream of handle h.
LinesOf(h) == streams[h].written.lines

AllLines == LinesOf("stderr") \o LinesOf("file")

\* The width of the level label, its separating space included.
LevelLabelWidth == 9

RECURSIVE PadTo(_, _)
PadTo(text, width) == IF Len(text) >= width THEN text ELSE PadTo(text \o " ", width)

\* The separator after a field: one space iff the field is not empty.
Sep(field) == IF field = "" THEN "" ELSE " "

\* The line of a call, without its newline, as the format states it.
ExpectedLine(r) ==
    r.timestamp \o Sep(r.timestamp) \o r.name \o Sep(r.name)
        \o PadTo(r.level, LevelLabelWidth) \o r.message

ExpectedLines == { ExpectedLine(r) : r \in BagToSet(prepared) }

Count(seq, x) == Cardinality({ i \in DOMAIN seq : seq[i] = x })

\* How many calls that passed the gate have this line.
PreparedCount(line) ==
    LET same == { r \in BagToSet(prepared) : ExpectedLine(r) = line }
    IN  BagCardinality([r \in same |-> prepared[r]])

\* The lines are those of the calls that passed the gate, each once per call.
LinesMatchCalls(lines) ==
    /\ Len(lines) = BagCardinality(prepared)
    /\ \A line \in ExpectedLines : Count(lines, line) = PreparedCount(line)

\* The line thread t's call is writing.
LineOf(t) ==
    ExpectedLine([timestamp |-> timestamp[t], name |-> mLoggerName,
                  level |-> logMessageLevel[t], message |-> messageBuffer[t]])

\* ---- C1

C1_Passed ==
    \A t \in Threads : \A M \in Levels :
        PastGate(t) /\ held[t] = {M} => GateRule(M, logMessageLevel[t])

C1_Appended ==
    Len(AllLines) + Cardinality({ t \in Threads : pc[t] \in {"lock", "write", "flush"} })
        = BagCardinality(prepared)

C1_Step ==
    \A t \in Threads : \A M \in Levels :
        Suppressed(t) /\ held[t] = {M} =>
            /\ ~GateRule(M, logMessageLevel[t])
            /\ streams' = streams

\* C1: with the minimum level M unchanged during the call, an emission at L
\* appends its line iff M is not NONE and rank(M) <= rank(L): a call past the
\* gate satisfies the rule and its line is appended when it returns, and a
\* call that returns from the gate does not satisfy it and appends nothing.
C1_EmitsIffRankAllows == [](C1_Passed /\ C1_Appended) /\ [][C1_Step]_vars

C1_Witness ==
    /\ pc[1] = "unlock"
    /\ held[1] = {"WARNING"}
    /\ logMessageLevel[1] = "WARNING"
    /\ Len(AllLines) = 1

\* ---- C2

C2_NoTornLine ==
    \A h \in Handles :
        /\ streams[h].written.partial = ""
        /\ \A i \in DOMAIN LinesOf(h) : LinesOf(h)[i] \in ExpectedLines

C2_AllLines ==
    Quiescent =>
        /\ \A h \in Handles : streams[h].buffer = EmptyBytes
        /\ LinesMatchCalls(AllLines)

\* C2: under every interleaving of the threads' calls, every line in the
\* destination is the whole line of a call that passed the gate, and when
\* all calls have returned the destination holds exactly one line per such
\* call: none torn, mixed, lost or duplicated.
C2_WholeLinesOnePerCall == C2_NoTornLine /\ C2_AllLines

C2_Witness ==
    /\ Quiescent
    /\ Len(AllLines) = 2
    /\ \E r1, r2 \in BagToSet(prepared) : r1.message = "x=1" /\ r2.message = "x=2"

\* ---- C3

\* The destination the constructor is to choose for a filename.
Destination(file) ==
    IF file # "" /\ fopen(file) # "nullptr" THEN "file" ELSE "stderr"

\* C3: the destination is the file when it was opened and the default error
\* stream otherwise (no path, or a path that cannot be opened); it is open,
\* and the lines of the calls that passed the gate are all in it, correctly
\* formatted, and nowhere else.
C3_FallbackToStderr ==
    /\ alive => /\ mLoggingFile = Destination(filename)
                /\ streams[mLoggingFile].open
    /\ Quiescent =>
          /\ LinesMatchCalls(LinesOf(Destination(filename)))
          /\ \A h \in Handles \ {Destination(filename)} : LinesOf(h) = <<>>

C3_Witness ==
    /\ alive
    /\ filename = UnwritablePath
    /\ Quiescent
    /\ Len(LinesOf("stderr")) = 1

\* ---- C4

C4_State ==
    /\ alive => mLoggingLevel = configured
    /\ \A t \in Threads :
          PastGate(t) => \E M \in held[t] : GateRule(M, logMessageLevel[t])

C4_Step ==
    /\ \A t \in Threads :
          Suppressed(t) => \E M \in held[t] : ~GateRule(M, logMessageLevel[t])
    /\ \A h \in Handles :
          /\ Len(LinesOf(h)) <= Len(streams'[h].written.lines)
          /\ SubSeq(streams'[h].written.lines, 1, Len(LinesOf(h))) = LinesOf(h)
    /\ setLevels' # setLevels => streams' = streams

\* C4: once setLevel(M) has returned the minimum level is M, so a call that
\* starts afterwards is gated against M; the lines already written stay as
\* they are; and the decision of a call in flight is the gate rule applied to
\* a minimum level configured at some point during that call.
C4_SetLevelTakesEffect == []C4_State /\ [][C4_Step]_vars

C4_Witness ==
    /\ pc[1] = "prepare"
    /\ Cardinality(held[1]) = 2
    /\ ~GateRule(configured, logMessageLevel[1])

\* ---- C5

C5_LinesFormatted ==
    /\ \A h \in Handles : \A i \in DOMAIN LinesOf(h) : LinesOf(h)[i] \in ExpectedLines
    /\ alive => \A r \in BagToSet(prepared) :
                   /\ r.name = mLoggerName
                   /\ mTimePrefix = "NONE" => r.timestamp = ""

C5_Examples ==
    alive /\ Quiescent /\ mTimePrefix = "NONE" /\ BagCardinality(prepared) = 1 =>
        \A r \in BagToSet(prepared) :
            /\ mLoggerName = "svc" /\ r.level = "ERROR" /\ r.message = "boom now"
                  => LinesOf(mLoggingFile) = << "svc ERROR    boom now" >>
            /\ mLoggerName = "" /\ r.level = "DEBUG" /\ r.message = "hi"
                  => LinesOf(mLoggingFile) = << "DEBUG    hi" >>

\* C5: every line written is timestamp, name, level label and message in
\* that order, a single space after the timestamp and after the name iff
\* that field is not empty, the fixed-width label always there; with the
\* time prefix NONE the line has no timestamp, and with the name "svc"
\* error( "boom %s", "now" ) writes exactly "svc ERROR    boom now".
C5_LineFormat == C5_LinesFormatted /\ C5_Examples

C5_Witness ==
    /\ alive
    /\ mTimePrefix = "NONE"
    /\ mLoggerName = "svc"
    /\ Quiescent
    /\ LinesOf(mLoggingFile) = << "svc ERROR    boom now" >>

\* ---- C6

\* The names the parser is to recognise, in capitals.
NamedLevels ==
    { [name |-> <<"A","L","L">>, level |-> "ALL"],
      [name |-> <<"D","E","B","U","G">>, level |-> "DEBUG"],
      [name |-> <<"I","N","F","O">>, level |-> "INFO"],
      [name |-> <<"W","A","R","N","I","N","G">>, level |-> "WARNING"],
      [name |-> <<"E","R","R","O","R">>, level |-> "ERROR"],
      [name |-> <<"C","R","I","T","I","C","A","L">>, level |-> "CRITICAL"],
      [name |-> <<"N","O","N","E">>, level |-> "NONE"],
      [name |-> <<"W","A","R","N">>, level |-> "WARNING"],
      [name |-> <<"E","R","R">>, level |-> "ERROR"],
      [name |-> <<"C","R","I","T">>, level |-> "CRITICAL"] }

\* The string, once its letters are capitals, is the name.
EqualsUpperCased(text, name) ==
    /\ Len(text) = Len(name)
    /\ \A i \in 1..Len(text) :
          \/ text[i] = name[i]
          \/ \E k \in 1..Len(LowerCase) : LowerCase[k] = text[i] /\ UpperCase[k] = name[i]

C6_Result ==
    parseResult # "pending" =>
        LET hits == { e \in NamedLevels : EqualsUpperCased(parseLevel, e.name) }
        IN  IF hits = {}
            THEN parseResult = parseDefault
            ELSE \A e \in hits : parseResult = e.level

C6_Step ==
    parseResult' # parseResult =>
        UNCHANGED << loggerVars, mWriteMutex, alive, filename, streams, now, pc,
                     localVars, calls, setLevels, configured, held, prepared,
                     parseLevel, parseDefault >>

\* C6: getLevelFromString returns, for every string and default, the level
\* whose name or shorthand the string spells in any casing, and the default
\* for every other string, whatever the state of the Logger instance; the
\* call changes nothing but its result.
C6_ParseTotalCaseInsensitive == []C6_Result /\ [][C6_Step]_vars

C6_Witness ==
    /\ parseLevel = <<"e", "R", "r">>
    /\ parseDefault = "NONE"
    /\ parseResult = "ERROR"
    /\ mLoggingLevel = "DEBUG"

\* ---- C7

\* C7: the class has the generic entry point log( level, format, ... ) its
\* API declares beside debug, info, warning, error and critical.
C7_GenericLogEntryPoint == alive => "log" \in ApiMethods /\ "log" \in PublicMethods

\* ---- C8

\* C8: the file the instance opened at construction is closed by the
\* destructor, once, and not before; the default error stream stays open and
\* is never closed, chosen by default or by fallback.
C8_ClosesOnlyOwnedFile ==
    /\ streams["stderr"].open /\ streams["stderr"].closes = 0
    /\ alive => streams["file"].closes = 0
    /\ alive => (streams["file"].open <=> (filename # "" /\ fopen(filename) = "file"))
    /\ ~alive => /\ ~streams["file"].open
                 /\ streams["file"].closes =
                       IF filename # "" /\ fopen(filename) = "file" THEN 1 ELSE 0

C8_Witness ==
    /\ ~alive
    /\ filename = WritablePath
    /\ streams["file"].closes = 1
    /\ Len(LinesOf("file")) = 1

\* ---- C9

C9_State ==
    /\ mWriteMutex \in Threads \cup {0}
    /\ mWriteMutex = 0 => \A h \in Handles : streams[h].buffer = EmptyBytes
    /\ \A t \in Threads :
          /\ mWriteMutex = t <=> pc[t] \in {"write", "flush", "unlock"}
          /\ pc[t] = "flush" =>
                streams[mLoggingFile].buffer = [lines |-> << LineOf(t) >>, partial |-> ""]
          /\ pc[t] = "unlock" =>
                /\ streams[mLoggingFile].buffer = EmptyBytes
                /\ LinesOf(mLoggingFile) # <<>>
                /\ LinesOf(mLoggingFile)[Len(LinesOf(mLoggingFile))] = LineOf(t)

C9_Step ==
    \A t \in Threads :
        /\ streams' # streams => (mWriteMutex = t <=> pc[t] \in {"write", "flush"})
        /\ pc[t] # "idle" /\ pc'[t] = "idle" => mWriteMutex' # t
        /\ PastGate(t) /\ pc'[t] = "idle" =>
              /\ mWriteMutex = t /\ mWriteMutex' = 0
              /\ \A h \in Handles : streams'[h].buffer = EmptyBytes

C9_Returns == \A t \in Threads : (pc[t] # "idle") ~> (pc[t] = "idle")

\* C9: a call that passes the gate holds the write lock exactly while it
\* writes its whole line and flushes it, in that order, and releases it as it
\* returns: no call returns holding the lock or with bytes unflushed; and
\* under fair scheduling every call returns.
C9_LockWriteFlushRelease == []C9_State /\ [][C9_Step]_vars /\ C9_Returns

C9_Witness ==
    /\ pc[1] = "lock"
    /\ mWriteMutex = 2
    /\ pc[2] = "flush"

\* ---- C10

C10_State ==
    \A t \in Threads :
        AtGate(t) => /\ timestamp[t] = ""
                     /\ messageBuffer[t] = ""
                     /\ wpos[t] = 0
                     /\ mWriteMutex # t

C10_Step ==
    \A t \in Threads :
        Suppressed(t) =>
            /\ UNCHANGED << loggerVars, mWriteMutex, alive, filename, streams, prepared >>
            /\ timestamp'[t] = ""
            /\ messageBuffer'[t] = ""

\* C10: the gate is asked before anything else is done, and a call it
\* suppresses renders no timestamp, formats no message, does not take the
\* write lock, writes and flushes nothing, and leaves the destination and
\* every field of the Logger as they were.
C10_SuppressedIsNoOp == []C10_State /\ [][C10_Step]_vars

C10_Witness ==
    /\ alive
    /\ calls = 1
    /\ Quiescent
    /\ prepared = EmptyBag
    /\ mLoggingLevel = "WARNING"
    /\ mTimePrefix = "LOCAL_DEFAULT"
    /\ AllLines = <<>>

====
